---- MODULE Spec2Model ----
(***************************************************************************)
(* Model of the key pool of main.go: the KeyManager (keys, available,      *)
(* blocked, the mutexes mu and blockMu), its six methods as called by the  *)
(* HTTP handlers, and the BackgroundTask goroutine.                        *)
(*                                                                         *)
(* Time is counted in seconds.  Every method of KeyManager holds mu for    *)
(* its whole body, so a call is one step taken when mu is free.  The first *)
(* loop of BackgroundTask holds only blockMu, which no method takes, so    *)
(* its statements are separate steps that interleave with the methods.     *)
(***************************************************************************)
EXTENDS Integers, Sequences, FiniteSets, TLC

\* ---------------------------------------------------------------- bounds
NumKeys == 2        \* how many keys GenerateNewKey may issue in a run
NumCallers == 2     \* concurrent HTTP requests
MaxTime == 2        \* seconds of wall clock explored after the initial state

\* ------------------------------------------------------ program constants
BlockTimeout == 20  \* 20*time.Second
IdleTimeout == 60   \* 1*time.Minute
SleepPeriod == 1    \* time.Sleep(1 * time.Second)

\* The zero time.Time (year 1).  The wall clock starts far after it, so that
\* now.Sub(zero) exceeds both timeouts, as it does in the program.
ZeroTime == 0
StartTime == IdleTimeout + 1

\* Key i stands for the string "key" + strconv.Itoa(n_i) of the i-th draw of
\* rand.Int(); NoKey is the empty string.
NoKey == 0
Ids == 1..NumKeys
\* The ids a request can name; an id not issued yet is an unknown id.
ArgIds == Ids
Callers == 1..NumCallers
Reclaimer == 0
Procs == Callers \cup {Reclaimer}

VARIABLES
    keys,       \* km.keys: id -> KeyMetadata
    available,  \* km.available: sequence of ids
    blocked,    \* km.blocked: id -> time
    mu,         \* km.mu: "free" or its holder
    blockMu,    \* km.blockMu: "free" or its holder
    now,        \* the wall clock, time.Now()
    nextKey,    \* number of keys issued so far
    call,       \* per caller: the request being served, or NoCall
    ret,        \* the response written by the step just taken, if any
    rpc,        \* BackgroundTask: program counter
    rnow,       \* BackgroundTask: local now
    rtodo,      \* BackgroundTask: entries of the range over km.blocked left
    rkey,       \* BackgroundTask: loop variable key
    rmeta,      \* BackgroundTask: local metadata
    rwake,      \* BackgroundTask: when the current time.Sleep ends
    until       \* the last second explored

poolVars == <<keys, available, blocked>>
recVars == <<rpc, rnow, rtodo, rkey, rmeta, rwake, until>>
vars == <<keys, available, blocked, mu, blockMu, now, nextKey, call, ret,
          rpc, rnow, rtodo, rkey, rmeta, rwake, until>>

\* ------------------------------------------------------------- data model
KeyMetadata(k, ct, la, b, ba) ==
    [Key |-> k, CreationTime |-> ct, LastAccess |-> la, IsBlocked |-> b,
     BlockedAt |-> ba]

\* The zero value a Go map lookup yields for a missing key.
ZeroMetadata == KeyMetadata(NoKey, ZeroTime, ZeroTime, FALSE, ZeroTime)

\* t.Sub(u), in seconds.
Sub(t, u) == t - u

\* m[k] of a Go map: the zero value when k is missing.
MapGet(m, k, zero) == IF k \in DOMAIN m THEN m[k] ELSE zero

\* m[k] = v
MapPut(m, k, v) == [x \in DOMAIN m \cup {k} |-> IF x = k THEN v ELSE m[x]]

\* delete(m, k)
MapDelete(m, k) == [x \in DOMAIN m \ {k} |-> m[x]]

\* append(s[:index], s[index+1:]...), index counted from 1
RemoveAt(s, index) ==
    [i \in 1..(Len(s) - 1) |-> IF i < index THEN s[i] ELSE s[i + 1]]

Range(s) == {s[i] : i \in 1..Len(s)}

NoCall == [op |-> "none", id |-> NoKey]
NoRet == [op |-> "none", id |-> NoKey, err |-> "nil", key |-> NoKey,
          meta |-> ZeroMetadata]
\* What a handler answers to request op(id): the error, the key of
\* {"keyId": key}, the record.
Response(op, id, err, key, meta) ==
    [op |-> op, id |-> id, err |-> err, key |-> key, meta |-> meta]

ErrNoKeys == "no keys available"
ErrNotBlocked == "key not blocked or not exist"
ErrNotExist == "key does not exist"

\* GenerateRandomKey: the ids the next draw can give.  rand.Int() draws from
\* 2^63 values; a repeated draw is left out, and a run issues NumKeys keys.
GenerateRandomKey == IF nextKey < NumKeys THEN {nextKey + 1} ELSE {}

\* ------------------------------------------------------------------- Init
\* The program starts with an empty pool (age 0).  To reach the timeouts
\* within MaxTime seconds, a run may also start from the pool as it is `age`
\* seconds after this history: at StartTime, n keys were created and checked
\* out, and those of `back` were released again; nothing was called since,
\* and BackgroundTask has just finished the iteration of second `age`, none
\* of which found a key to move or to delete.  The ages are one second short
\* of each timeout: the first iteration of a run then finds no key of the
\* history due, and the second finds them due.
Ages == {0, BlockTimeout - 1, IdleTimeout - 1}

Leased(key) == KeyMetadata(key, ZeroTime, StartTime, TRUE, StartTime)
Returned(key) == KeyMetadata(key, ZeroTime, StartTime, FALSE, StartTime)

\* The ids of a set in increasing order, as a sequence.
RECURSIVE InOrder(_)
InOrder(S) ==
    IF S = {} THEN <<>>
    ELSE LET m == CHOOSE x \in S : \A y \in S : x <= y
         IN  <<m>> \o InOrder(S \ {m})

InitPool(age, n, back) ==
    /\ keys = [k \in 1..n |-> IF k \in back THEN Returned(k) ELSE Leased(k)]
    /\ available = InOrder(back)
    /\ blocked = [k \in (1..n) \ back |-> StartTime]
    /\ nextKey = n
    /\ now = StartTime + age
    /\ rnow = ZeroTime
    /\ rwake = StartTime + age + SleepPeriod
    /\ until = StartTime + age + MaxTime

Init ==
    /\ \E age \in Ages :
          IF age = 0
          THEN InitPool(0, 0, {})
          ELSE \E n \in 1..NumKeys : \E back \in SUBSET (1..n) :
                  /\ age > BlockTimeout => back = 1..n
                  /\ InitPool(age, n, back)
    /\ mu = "free"
    /\ blockMu = "free"
    /\ call = [c \in Callers |-> NoCall]
    /\ ret = NoRet
    /\ rpc = "sleep"
    /\ rtodo = {}
    /\ rkey = NoKey
    /\ rmeta = ZeroMetadata

\* ------------------------------------------------------------ HTTP router
\* The requests a client can send.
Requests ==
    [op : {"create", "checkout"}, id : {NoKey}]
        \cup [op : {"info", "remove", "release", "keepAlive"}, id : ArgIds]

Pending(op) == {c \in Callers : call[c].op = op}

\* A request arrives while km.mu is held: its handler waits in km.mu.Lock().
Invoke(c) ==
    /\ call[c] = NoCall
    /\ mu # "free"
    /\ \E r \in Requests :
          /\ r.op = "create" => nextKey + Cardinality(Pending("create")) < NumKeys
          /\ call' = [call EXCEPT ![c] = r]
    /\ ret' = NoRet
    /\ UNCHANGED <<keys, available, blocked, mu, blockMu, now, nextKey>>
    /\ UNCHANGED recVars

\* The handler of c is serving request r: r waited for km.mu, or it arrives
\* now and finds km.mu free.
Serving(c, r) == call[c] = r \/ call[c] = NoCall

\* The handler of caller c writes its response and ends.
Return(c, resp) ==
    /\ ret' = resp
    /\ call' = [call EXCEPT ![c] = NoCall]

\* ------------------------------------------------------------- KeyManager
\* GenerateNewKey without the append to km.available.
GenerateNewKey_NoAppend(c) ==
    /\ Serving(c, [op |-> "create", id |-> NoKey])
    /\ mu = "free"
    /\ \E newKey \in GenerateRandomKey :
          /\ keys' = MapPut(keys, newKey,
                            KeyMetadata(newKey, now, ZeroTime, FALSE, ZeroTime))
          /\ nextKey' = nextKey + 1
          /\ Return(c, Response("create", NoKey, "nil", newKey, ZeroMetadata))
    /\ UNCHANGED <<available, blocked, mu, blockMu, now>>
    /\ UNCHANGED recVars

GenerateNewKey(c) ==
    /\ Serving(c, [op |-> "create", id |-> NoKey])
    /\ mu = "free"
    /\ \E newKey \in GenerateRandomKey :
          /\ keys' = MapPut(keys, newKey,
                            KeyMetadata(newKey, now, ZeroTime, FALSE, ZeroTime))
          /\ available' = Append(available, newKey)
          /\ nextKey' = nextKey + 1
          /\ Return(c, Response("create", NoKey, "nil", newKey, ZeroMetadata))
    /\ UNCHANGED <<blocked, mu, blockMu, now>>
    /\ UNCHANGED recVars

RetreiveAvailableKey(c) ==
    /\ Serving(c, [op |-> "checkout", id |-> NoKey])
    /\ mu = "free"
    /\ IF Len(available) = 0
       THEN /\ Return(c, Response("checkout", NoKey, ErrNoKeys, NoKey, ZeroMetadata))
                    /\ UNCHANGED <<keys, available, blocked>>
       ELSE \E index \in 1..Len(available) :
               LET key == available[index] IN
               /\ available' = RemoveAt(available, index)
               /\ keys' = MapPut(keys, key,
                                 KeyMetadata(key, ZeroTime, now, TRUE, now))
               /\ blocked' = MapPut(blocked, key, now)
               /\ Return(c, Response("checkout", NoKey, "nil", key, ZeroMetadata))
    /\ UNCHANGED <<mu, blockMu, now, nextKey>>
    /\ UNCHANGED recVars

\* UnblockKey with the test made on km.keys instead of km.blocked.
UnblockKey_TestsKeys(c) ==
    /\ mu = "free"
    /\ \E key \in ArgIds :
          /\ Serving(c, [op |-> "release", id |-> key])
          /\ IF key \in DOMAIN keys
             THEN LET metadata ==
                          [MapGet(keys, key, ZeroMetadata) EXCEPT !.IsBlocked = FALSE]
                  IN  /\ blocked' = MapDelete(blocked, key)
                      /\ available' = Append(available, key)
                      /\ keys' = MapPut(keys, key, metadata)
                      /\ Return(c, Response("release", key, "nil", NoKey, ZeroMetadata))
             ELSE /\ Return(c, Response("release", key, ErrNotBlocked, NoKey,
                                        ZeroMetadata))
                  /\ UNCHANGED <<keys, available, blocked>>
    /\ UNCHANGED <<mu, blockMu, now, nextKey>>
    /\ UNCHANGED recVars

UnblockKey(c) ==
    /\ mu = "free"
    /\ \E key \in ArgIds :
          /\ Serving(c, [op |-> "release", id |-> key])
          /\ IF key \in DOMAIN blocked
             THEN LET metadata ==
                          [MapGet(keys, key, ZeroMetadata) EXCEPT !.IsBlocked = FALSE]
                  IN  /\ blocked' = MapDelete(blocked, key)
                      /\ available' = Append(available, key)
                      /\ keys' = MapPut(keys, key, metadata)
                      /\ Return(c, Response("release", key, "nil", NoKey, ZeroMetadata))
             ELSE /\ Return(c, Response("release", key, ErrNotBlocked, NoKey,
                                        ZeroMetadata))
                  /\ UNCHANGED <<keys, available, blocked>>
    /\ UNCHANGED <<mu, blockMu, now, nextKey>>
    /\ UNCHANGED recVars

\* KeepAlive writing a whole new record, as RetreiveAvailableKey does,
\* instead of updating the field.
KeepAlive_ReplacesRecord(c) ==
    /\ mu = "free"
    /\ \E key \in ArgIds :
          /\ Serving(c, [op |-> "keepAlive", id |-> key])
          /\ IF key \in DOMAIN keys
             THEN /\ keys' = MapPut(keys, key,
                                    KeyMetadata(key, ZeroTime, now, FALSE, ZeroTime))
                  /\ Return(c, Response("keepAlive", key, "nil", NoKey, ZeroMetadata))
             ELSE /\ Return(c, Response("keepAlive", key, ErrNotExist, NoKey,
                                        ZeroMetadata))
                  /\ UNCHANGED keys
    /\ UNCHANGED <<available, blocked, mu, blockMu, now, nextKey>>
    /\ UNCHANGED recVars

\* KeepAlive writing the record it looked up back to km.keys before it
\* tests exists.
KeepAlive_WritesMissing(c) ==
    /\ mu = "free"
    /\ \E key \in ArgIds :
          /\ Serving(c, [op |-> "keepAlive", id |-> key])
          /\ keys' = MapPut(keys, key,
                            [MapGet(keys, key, ZeroMetadata) EXCEPT !.LastAccess = now])
          /\ IF key \in DOMAIN keys
             THEN Return(c, Response("keepAlive", key, "nil", NoKey, ZeroMetadata))
             ELSE Return(c, Response("keepAlive", key, ErrNotExist, NoKey,
                                     ZeroMetadata))
    /\ UNCHANGED <<available, blocked, mu, blockMu, now, nextKey>>
    /\ UNCHANGED recVars

KeepAlive(c) ==
    /\ mu = "free"
    /\ \E key \in ArgIds :
          /\ Serving(c, [op |-> "keepAlive", id |-> key])
          /\ IF key \in DOMAIN keys
             THEN /\ keys' = MapPut(keys, key, [keys[key] EXCEPT !.LastAccess = now])
                  /\ Return(c, Response("keepAlive", key, "nil", NoKey, ZeroMetadata))
             ELSE /\ Return(c, Response("keepAlive", key, ErrNotExist, NoKey,
                                        ZeroMetadata))
                  /\ UNCHANGED keys
    /\ UNCHANGED <<available, blocked, mu, blockMu, now, nextKey>>
    /\ UNCHANGED recVars

GetKeyInfo(c) ==
    /\ mu = "free"
    /\ \E key \in ArgIds :
          /\ Serving(c, [op |-> "info", id |-> key])
          /\ IF key \in DOMAIN keys
             THEN Return(c, Response("info", key, "nil", NoKey, keys[key]))
             ELSE Return(c, Response("info", key, ErrNotExist, NoKey, ZeroMetadata))
    /\ UNCHANGED <<keys, available, blocked, mu, blockMu, now, nextKey>>
    /\ UNCHANGED recVars

\* DeleteKey answering as KeepAlive does when the key is not in km.keys.
DeleteKey_FailsOnMissing(p) ==
    /\ mu = "free"
    /\ IF p = Reclaimer
       THEN /\ rpc = "deleteKey"
            /\ keys' = MapDelete(keys, rkey)
            /\ blocked' = MapDelete(blocked, rkey)
            /\ rpc' = "pass2"
            /\ ret' = NoRet
            /\ UNCHANGED <<call, rnow, rtodo, rkey, rmeta, rwake, until>>
       ELSE \E key \in ArgIds :
               /\ Serving(p, [op |-> "remove", id |-> key])
               /\ keys' = MapDelete(keys, key)
               /\ blocked' = MapDelete(blocked, key)
               /\ Return(p, Response("remove", key,
                                     IF key \in DOMAIN keys THEN "nil" ELSE ErrNotExist,
                                     NoKey, ZeroMetadata))
               /\ UNCHANGED recVars
    /\ UNCHANGED <<available, mu, blockMu, now, nextKey>>

\* DeleteKey is called by the DELETE handler and by the second loop of
\* BackgroundTask; either way it starts with km.mu.Lock().
DeleteKey(p) ==
    /\ mu = "free"
    /\ IF p = Reclaimer
       THEN /\ rpc = "deleteKey"
            /\ keys' = MapDelete(keys, rkey)
            /\ blocked' = MapDelete(blocked, rkey)
            /\ rpc' = "pass2"
            /\ ret' = NoRet
            /\ UNCHANGED <<call, rnow, rtodo, rkey, rmeta, rwake, until>>
       ELSE \E key \in ArgIds :
               /\ Serving(p, [op |-> "remove", id |-> key])
               /\ keys' = MapDelete(keys, key)
               /\ blocked' = MapDelete(blocked, key)
               /\ Return(p, Response("remove", key, "nil", NoKey, ZeroMetadata))
               /\ UNCHANGED recVars
    /\ UNCHANGED <<available, mu, blockMu, now, nextKey>>

\* --------------------------------------------------------- BackgroundTask
\* time.Sleep returns, now := time.Now(), km.blockMu.Lock(), the range over
\* km.blocked starts.  Entries added to km.blocked during the range carry a
\* time >= now and fail the test of the loop whether produced or not, so
\* the range is over the entries present at its start.
Wake ==
    /\ rpc = "sleep"
    /\ now >= rwake
    /\ blockMu = "free"
    /\ rnow' = now
    /\ blockMu' = "reclaimer"
    /\ rtodo' = DOMAIN blocked
    /\ rpc' = "pass1"
    /\ ret' = NoRet
    /\ UNCHANGED <<keys, available, blocked, mu, now, nextKey, call,
                   rkey, rmeta, rwake, until>>

\* One iteration of the first loop up to its test; entries deleted before
\* they are reached are not produced.
Pass1Next ==
    /\ rpc = "pass1"
    /\ \E key \in rtodo :
          /\ rtodo' = rtodo \ {key}
          /\ IF key \in DOMAIN blocked /\ Sub(rnow, blocked[key]) > BlockTimeout
             THEN /\ rkey' = key
                  /\ rpc' = "p1read"
             ELSE UNCHANGED <<rkey, rpc>>
    /\ ret' = NoRet
    /\ UNCHANGED <<keys, available, blocked, mu, blockMu, now, nextKey, call,
                   rnow, rmeta, rwake, until>>

\* metadata := km.keys[key]; metadata.IsBlocked = false
Pass1Read ==
    /\ rpc = "p1read"
    /\ rmeta' = [MapGet(keys, rkey, ZeroMetadata) EXCEPT !.IsBlocked = FALSE]
    /\ rpc' = "p1delete"
    /\ ret' = NoRet
    /\ UNCHANGED <<keys, available, blocked, mu, blockMu, now, nextKey, call,
                   rnow, rtodo, rkey, rwake, until>>

\* delete(km.blocked, key)
Pass1Delete ==
    /\ rpc = "p1delete"
    /\ blocked' = MapDelete(blocked, rkey)
    /\ rpc' = "p1write"
    /\ ret' = NoRet
    /\ UNCHANGED <<keys, available, mu, blockMu, now, nextKey, call,
                   rnow, rtodo, rkey, rmeta, rwake, until>>

\* km.keys[key] = metadata
Pass1Write ==
    /\ rpc = "p1write"
    /\ keys' = MapPut(keys, rkey, rmeta)
    /\ rpc' = "p1append"
    /\ ret' = NoRet
    /\ UNCHANGED <<available, blocked, mu, blockMu, now, nextKey, call,
                   rnow, rtodo, rkey, rmeta, rwake, until>>

\* km.available = append(km.available, key); the iteration ends and its
\* variables key and metadata go out of scope.
Pass1Append ==
    /\ rpc = "p1append"
    /\ available' = Append(available, rkey)
    /\ rpc' = "pass1"
    /\ rkey' = NoKey
    /\ rmeta' = ZeroMetadata
    /\ ret' = NoRet
    /\ UNCHANGED <<keys, blocked, mu, blockMu, now, nextKey, call,
                   rnow, rtodo, rwake, until>>

Expired(key) == Sub(rnow, keys[key].LastAccess) > IdleTimeout

\* The first loop ends: km.blockMu.Unlock().  Then km.mu.Lock() and the
\* second loop, up to the first key that passes its test, for which it calls
\* km.DeleteKey(key) with km.mu held.  With no such key the loop ends,
\* km.mu.Unlock(), the iteration's now goes out of scope and the next
\* time.Sleep starts; km.mu is then held within this step only.
Pass2 ==
    /\ rpc = "pass1"
    /\ rtodo = {}
    /\ mu = "free"
    /\ blockMu' = "free"
    /\ IF \E key \in DOMAIN keys : Expired(key)
       THEN /\ \E key \in DOMAIN keys : Expired(key) /\ rkey' = key
            /\ mu' = "reclaimer"
            /\ rpc' = "deleteKey"
            /\ UNCHANGED <<rwake, rnow>>
       ELSE /\ rpc' = "sleep"
            /\ rwake' = now + SleepPeriod
            /\ rnow' = ZeroTime
            /\ UNCHANGED <<mu, rkey>>
    /\ ret' = NoRet
    /\ UNCHANGED <<keys, available, blocked, now, nextKey, call,
                   rtodo, rmeta, until>>

\* ------------------------------------------------------------------ clock
\* A goroutine that can run does so before the next second passes: time
\* advances only while BackgroundTask sleeps or waits for a lock, and every
\* pending request waits for a lock.
Blocked(p) ==
    IF p = Reclaimer
    THEN \/ rpc = "sleep" /\ now < rwake
         \/ rpc = "deleteKey" /\ mu # "free"
    ELSE call[p] = NoCall \/ mu # "free"

Tick ==
    /\ now < until
    /\ \A p \in Procs : Blocked(p)
    /\ now' = now + 1
    /\ ret' = NoRet
    /\ UNCHANGED <<keys, available, blocked, mu, blockMu, nextKey, call>>
    /\ UNCHANGED recVars

Next ==
    \/ \E c \in Callers : Invoke(c)
    \/ \E c \in Callers : GenerateNewKey(c)
    \/ \E c \in Callers : RetreiveAvailableKey(c)
    \/ \E c \in Callers : UnblockKey(c)
    \/ \E c \in Callers : KeepAlive(c)
    \/ \E c \in Callers : GetKeyInfo(c)
    \/ \E p \in Procs : DeleteKey(p)
    \/ Wake
    \/ Pass1Next
    \/ Pass1Read
    \/ Pass1Delete
    \/ Pass1Write
    \/ Pass1Append
    \/ Pass2
    \/ Tick

Spec == Init /\ [][Next]_vars

\* BackgroundTask is a goroutine of its own and is scheduled whenever it can
\* take a step; the wall clock advances.
BackgroundTask ==
    \/ Wake
    \/ Pass1Next
    \/ Pass1Read
    \/ Pass1Delete
    \/ Pass1Write
    \/ Pass1Append
    \/ Pass2
    \/ DeleteKey(Reclaimer)

FairSpec == Spec /\ WF_vars(BackgroundTask) /\ WF_vars(Tick)

\* The handler of caller c: the method its route calls.
Handler(c) ==
    \/ GenerateNewKey(c)
    \/ RetreiveAvailableKey(c)
    \/ UnblockKey(c)
    \/ KeepAlive(c)
    \/ GetKeyInfo(c)
    \/ DeleteKey(c)

\* Every handler runs in a goroutine of its own as well: a request that
\* waits for km.mu is served once km.mu stays free.
FairCallsSpec ==
    FairSpec /\ \A c \in Callers : WF_vars(call[c] # NoCall /\ Handler(c))

\* ================================================================ claims
InQueue(id) == id \in Range(available)
InBlockedSet(id) == id \in DOMAIN blocked
InRecords(id) == id \in DOMAIN keys

\* C1: no id is in both availableQueue and blockedSet, and every id of
\* availableQueue and of blockedSet is a key of records.
C1_DisjointAndInRecords ==
    /\ Range(available) \cap DOMAIN blocked = {}
    /\ Range(available) \subseteq DOMAIN keys
    /\ DOMAIN blocked \subseteq DOMAIN keys

\* C2: two concurrent checkout calls (two checkouts served one right after
\* the other: both requests can have arrived before either took km.mu) never
\* return the same id when the pool had at least 2 distinct available ids.
C2_NoDuplicateCheckout ==
    [][(/\ ret.op = "checkout" /\ ret.err = "nil"
        /\ ret'.op = "checkout" /\ ret'.err = "nil"
        /\ Cardinality(Range(available) \cup {ret.key}) >= 2)
       => ret'.key # ret.key]_vars

\* C3: every id of records is either available (in availableQueue, not in
\* blockedSet, IsBlocked false) or blocked (in blockedSet, not in
\* availableQueue, IsBlocked true).
C3_ExactlyOneState ==
    \A id \in DOMAIN keys :
        \/ InQueue(id) /\ ~InBlockedSet(id) /\ ~keys[id].IsBlocked
        \/ InBlockedSet(id) /\ ~InQueue(id) /\ keys[id].IsBlocked

\* C4: checkout fails with "no keys available" exactly when availableQueue
\* is empty; otherwise it returns an id that was in availableQueue, and after
\* it that id is not in availableQueue, is in blockedSet and has IsBlocked.
C4_Checkout ==
    [][ret'.op = "checkout" =>
         /\ (ret'.err = ErrNoKeys) <=> (Len(available) = 0)
         /\ ret'.err # ErrNoKeys =>
               /\ ret'.err = "nil"
               /\ ret'.key \in Range(available)
               /\ ret'.key \notin Range(available')
               /\ ret'.key \in DOMAIN blocked'
               /\ ret'.key \in DOMAIN keys' /\ keys'[ret'.key].IsBlocked]_vars

\* C5: release(id) fails with "key not blocked or not exist" when id is not
\* in blockedSet; when it is, release succeeds, and after it the record has
\* IsBlocked false, id is not in blockedSet and is in availableQueue; a
\* release(id) right after a successful one fails.
C5_Release ==
    [][ret'.op = "release" =>
         /\ IF ret'.id \in DOMAIN blocked
            THEN /\ ret'.err = "nil"
                 /\ ret'.id \notin DOMAIN blocked'
                 /\ ret'.id \in Range(available')
                 /\ ret'.id \in DOMAIN keys' /\ ~keys'[ret'.id].IsBlocked
            ELSE /\ ret'.err = ErrNotBlocked
         /\ (ret.op = "release" /\ ret.err = "nil" /\ ret'.id = ret.id)
               => ret'.err = ErrNotBlocked]_vars

\* A release of an id that exists but is already available was refused.
C5_Witness ==
    /\ ret.op = "release" /\ ret.err = ErrNotBlocked
    /\ ret.id \in DOMAIN keys /\ ret.id \in Range(available)
    /\ ~keys[ret.id].IsBlocked

\* The block timeout of the checked-out key id falls due within the time
\* explored.
LeaseDue(id) ==
    /\ id \in DOMAIN blocked
    /\ blocked[id] + BlockTimeout < until

\* C6: a checked-out key whose block timeout falls due is eventually out of
\* blockedSet, back in availableQueue (unless it was removed meanwhile),
\* with km.mu free so that a checkout can return it.
C6_LeaseExpires ==
    \A id \in Ids :
        LeaseDue(id) ~>
            (/\ id \notin DOMAIN blocked
             /\ id \in Range(available) \/ id \notin DOMAIN keys
             /\ mu = "free")

\* When the key was last touched: its last keepAlive or checkout, or its
\* creation when there was none.
LastTouched(id) ==
    IF keys[id].LastAccess # ZeroTime THEN keys[id].LastAccess
    ELSE keys[id].CreationTime

Untouched(id) ==
    id \in DOMAIN keys /\ Sub(now, LastTouched(id)) >= IdleTimeout

\* The key has been untouched for the idle timeout, and time goes on.
IdleDue(id) == Untouched(id) /\ now < until

\* C7: a key untouched for at least the idle timeout is eventually removed
\* from records (info(id) then answers "key does not exist"), unless a
\* keepAlive or a checkout touches it again first.
C7_IdleExpires ==
    \A id \in Ids :
        IdleDue(id) ~> ~Untouched(id)

\* C8: when a key is destroyed (by remove(id) or by the idle-expiry pass),
\* its id is afterwards in none of records, availableQueue and blockedSet.
C8_DestroyPurgesAll ==
    [][/\ ret'.op = "remove" =>
            /\ ret'.id \notin DOMAIN keys'
            /\ ret'.id \notin Range(available')
            /\ ret'.id \notin DOMAIN blocked'
       /\ \A id \in DOMAIN keys \ DOMAIN keys' :
            /\ id \notin Range(available')
            /\ id \notin DOMAIN blocked']_vars

\* C9: while an id stays in records, its CreationTime never changes.
C9_CreationTimeImmutable ==
    [][\A id \in DOMAIN keys \cap DOMAIN keys' :
          keys'[id].CreationTime = keys[id].CreationTime]_vars

NeverCreated(id) == id > nextKey

\* C11: for an id that was never created, release(id) fails with "key not
\* blocked or not exist", keepAlive(id) and info(id) fail with "key does not
\* exist" and remove(id) succeeds; remove fails for no id, and a remove(id)
\* right after a remove(id) answers the same and changes nothing.
C11_UnknownId ==
    [][/\ (ret'.op = "release" /\ NeverCreated(ret'.id))
             => ret'.err = ErrNotBlocked
       /\ (ret'.op \in {"keepAlive", "info"} /\ NeverCreated(ret'.id))
             => ret'.err = ErrNotExist
       /\ ret'.op = "remove" => ret'.err = "nil"
       /\ (ret.op = "remove" /\ ret'.op = "remove" /\ ret'.id = ret.id)
             => /\ ret'.err = ret.err
                /\ UNCHANGED poolVars]_vars

\* remove of an id never created was answered without error, on a pool that
\* holds another key.
C11_Witness ==
    /\ ret.op = "remove" /\ ret.err = "nil"
    /\ NeverCreated(ret.id)
    /\ DOMAIN keys # {}

\* How many times id occurs in the sequence s.
Count(s, id) == Cardinality({i \in 1..Len(s) : s[i] = id})

C13_NoRecursiveLock == ~(rpc = "deleteKey" /\ mu = "reclaimer")

\* C14: every request of a caller is eventually answered: no handler waits
\* forever for km.mu.
C14_EveryCallReturns ==
    \A c \in Callers : (call[c] # NoCall) ~> (call[c] = NoCall)

\* BackgroundTask is inside the body of its first loop, between the test on
\* km.blocked[key] and the append of key to km.available.
InsidePass1 == rpc \in {"p1read", "p1delete", "p1write", "p1append"}

\* C15: the block-timeout pass and a pool operation are never both inside
\* the code that reads and writes records, availableQueue and blockedSet: no
\* method runs its body while BackgroundTask is inside the body of its first
\* loop.
C15_MutualExclusion ==
    [][ret'.op # "none" => ~InsidePass1]_vars

\* The first loop of BackgroundTask is returning id to km.available with a
\* record whose LastAccess passes the test of the second loop of the same
\* iteration.
BothPasses(id) ==
    /\ rpc = "p1append" /\ rkey = id
    /\ Sub(rnow, rmeta.LastAccess) > IdleTimeout

Purged(id) ==
    /\ id \notin DOMAIN keys
    /\ id \notin Range(available)
    /\ id \notin DOMAIN blocked

\* A keepAlive or a checkout gave the record of id a recent LastAccess.
Touched(id) ==
    /\ id \in DOMAIN keys
    /\ keys[id].LastAccess # ZeroTime
    /\ Sub(now, keys[id].LastAccess) <= IdleTimeout

\* C16: a key that the block-timeout pass returns to available and that
\* qualifies for idle expiry in the same iteration is destroyed by it: the
\* iteration ends with the id in none of records, availableQueue and
\* blockedSet, unless the key stopped qualifying first: a keepAlive or a
\* checkout touched it, or a remove(id) took its record away.
C16_SameTickDestroyed ==
    \A id \in Ids :
        BothPasses(id) ~>
            \/ rpc = "sleep" /\ Purged(id)
            \/ Touched(id)
            \/ ~InRecords(id)

\* C17: once remove(id) has returned for an id that create had issued, no
\* checkout returns id and id does not become a key of records or of
\* blockedSet again (no later create draws it: ids are issued once); stated
\* for the step that follows the response of remove(id).
C17_RemovedStaysGone ==
    [][(ret.op = "remove" /\ ~NeverCreated(ret.id)) =>
         /\ ret'.op = "checkout" => ret'.key # ret.id
         /\ ret.id \notin DOMAIN keys'
         /\ ret.id \notin DOMAIN blocked']_vars

\* C18: the idle-expiry pass selects a key for destruction only when more
\* than the idle timeout has passed since its last keepAlive or checkout or,
\* for a key never accessed, since its creation.
C18_OnlyIdleKeysSelected ==
    (rpc = "deleteKey" /\ rkey \in DOMAIN keys)
        => Sub(rnow, LastTouched(rkey)) > IdleTimeout

\* C19: when the block-timeout pass takes an id out of blockedSet to return
\* it to availableQueue, more than the block timeout has passed since the
\* checkout that blocked it, whatever keepAlive calls came in between.
C19_NotBeforeTimeout ==
    [][(rpc = "p1delete" /\ rpc' = "p1write" /\ rkey \in DOMAIN blocked)
          => Sub(rnow, blocked[rkey]) > BlockTimeout]_vars

\* C20: an operation that fails (checkout with "no keys available", release
\* with "key not blocked or not exist", keepAlive or info with "key does not
\* exist") leaves records, availableQueue and blockedSet as they were.
C20_FailureChangesNothing ==
    [][(ret'.op # "none" /\ ret'.err # "nil") =>
         /\ ret'.err = (CASE ret'.op = "checkout" -> ErrNoKeys
                          [] ret'.op = "release" -> ErrNotBlocked
                          [] OTHER -> ErrNotExist)
         /\ ret'.op \in {"checkout", "release", "keepAlive", "info"}
         /\ UNCHANGED poolVars]_vars

\* A checkout was refused on a pool whose only keys are checked out.
C20_Witness ==
    /\ ret.op = "checkout" /\ ret.err = ErrNoKeys
    /\ DOMAIN keys # {} /\ DOMAIN blocked = DOMAIN keys
====
